---- MODULE Spec2Model ----
(***************************************************************************)
(* The generation endpoint (POST /api/generate-spots) and the daily cost   *)
(* ledger / completion audit log of src/lib/logger.ts.                     *)
(*                                                                         *)
(* The server is one Node.js process: code between two awaits runs to      *)
(* completion, and every filesystem call of logger.ts is synchronous.      *)
(* Each action below is therefore one such run-to-completion segment of    *)
(* the handler; requests interleave only at the awaits.                    *)
(*                                                                         *)
(* Money is counted in units of 10^-8 USD, the unit in which every entry   *)
(* of PRICING is a whole number per token (0.15 USD / 1e6 tokens = 15).    *)
(***************************************************************************)
EXTENDS Integers, Sequences, FiniteSets, TLC

\* ------------------------------------------------------------------ bounds

MaxRequests == 2       \* requests that arrive in one behaviour
MaxTokens == 1         \* completion tokens of one completion
MaxSpots == 1          \* spots the model's payload may name
MaxShortList == 3      \* spots of a short payload, enriched on its own

\* the number of spots the prompt asks the model for
PROMPT_SPOTS == 8

\* two requests may be in flight at the same time
Slots == {1, 2}

\* the date the server starts on, and the next
Dates == {1, 2}

\* ------------------------------------------------------- model identifiers
\* A model id is the sequence of its characters, so that normalizeModel is
\* the string operation the code performs.

Digits == {"0", "1", "2", "3", "4", "5", "6", "7", "8", "9"}

GPT_4O_MINI == <<"g","p","t","-","4","o","-","m","i","n","i">>
GPT_4O == <<"g","p","t","-","4","o">>
GPT_4_TURBO == <<"g","p","t","-","4","-","t","u","r","b","o">>
GPT_4 == <<"g","p","t","-","4">>
GPT_35_TURBO == <<"g","p","t","-","3",".","5","-","t","u","r","b","o">>

DATE_2024_07_18 == <<"-","2","0","2","4","-","0","7","-","1","8">>
DATE_2024_08_06 == <<"-","2","0","2","4","-","0","8","-","0","6">>

\* ids the pricing table does not know, before or after normalization
O1_MINI == <<"o","1","-","m","i","n","i">>
GPT_4_0613 == <<"g","p","t","-","4","-","0","6","1","3">>
GPT_4O_MINI_2024_07 == <<"g","p","t","-","4","o","-","m","i","n","i","-","2","0","2","4","-","0","7">>

PricedModels == {GPT_4O_MINI, GPT_4O, GPT_4_TURBO, GPT_4, GPT_35_TURBO}

\* PRICING, per token, in units of 10^-8 USD
PRICING ==
  [m \in PricedModels |->
     CASE m = GPT_4O_MINI  -> [input |-> 15,   output |-> 60]
       [] m = GPT_4O       -> [input |-> 250,  output |-> 1000]
       [] m = GPT_4_TURBO  -> [input |-> 1000, output |-> 3000]
       [] m = GPT_4        -> [input |-> 3000, output |-> 6000]
       [] m = GPT_35_TURBO -> [input |-> 50,   output |-> 150]]

\* the configured daily ceiling (OPENAI_DAILY_BUDGET_USD), in units of
\* 10^-8 USD: the operator's override 0.0000009, the price of one
\* default-tier request of two prompt tokens and one completion token
DAILY_BUDGET_USD == 90

\* /-\d{4}-\d{2}-\d{2}$/ against the last eleven characters
MatchesDateSuffix(s) ==
  /\ Len(s) = 11
  /\ s[1] = "-" /\ s[6] = "-" /\ s[9] = "-"
  /\ \A i \in {2, 3, 4, 5, 7, 8, 10, 11} : s[i] \in Digits

normalizeModelKeep(model) == model

normalizeModel(model) ==
  IF Len(model) >= 11 /\ MatchesDateSuffix(SubSeq(model, Len(model) - 10, Len(model)))
  THEN SubSeq(model, 1, Len(model) - 11)
  ELSE model

RatesFor(model) ==
  IF normalizeModel(model) \in DOMAIN PRICING
  THEN PRICING[normalizeModel(model)]
  ELSE PRICING[GPT_4O_MINI]

calcRequestCost(model, promptTokens, completionTokens) ==
  promptTokens * RatesFor(model).input + completionTokens * RatesFor(model).output

\* ------------------------------------------------------- the cost ledger

ZeroCost(date) ==
  [date |-> date, requests |-> 0, totalPromptTokens |-> 0,
   totalCompletionTokens |-> 0, totalTokens |-> 0, totalCostUSD |-> 0]

\* a cost file that does not exist
NoFile(date) == [exists |-> FALSE, data |-> ZeroCost(date)]

readDailyCostZero(files, date) == ZeroCost(date)

\* readDailyCost when readFileSync and JSON.parse succeed
readDailyCost(files, date) ==
  IF ~files[date].exists THEN ZeroCost(date) ELSE files[date].data

writeDailyCostOnly(files, cost) ==
  [d \in DOMAIN files |-> IF d = cost.date THEN [exists |-> TRUE, data |-> cost] ELSE NoFile(d)]

writeDailyCost(files, cost) ==
  [files EXCEPT ![cost.date] = [exists |-> TRUE, data |-> cost]]

\* What the filesystem does to one call of the logger:
\*   mkdirFail   mkdirSync throws (reached only while logs/ does not exist)
\*   readFail    readFileSync or JSON.parse throws (reached only for a file
\*               that exists)
\*   writeFail   writeFileSync throws
\*   appendFail  appendFileSync throws
IoOutcomes == {"ok", "mkdirFail", "readFail", "writeFail", "appendFail"}

\* ensureLogDir throws
MkdirThrows(dirExists, io) == ~dirExists /\ io = "mkdirFail"

\* readDailyCost throws
ReadThrows(files, date, io) == files[date].exists /\ io = "readFail"

BudgetReachedStrict(totalCostUSD) == totalCostUSD > DAILY_BUDGET_USD

\* todayCost.totalCostUSD >= DAILY_BUDGET_USD
BudgetReached(totalCostUSD) == totalCostUSD >= DAILY_BUDGET_USD

isDailyBudgetExceededFailClosed(dirExists, files, date, io) ==
  IF MkdirThrows(dirExists, io)
  THEN [exceeded |-> TRUE, dirExists |-> dirExists, files |-> files]
  ELSE IF ReadThrows(files, date, io)
  THEN [exceeded |-> TRUE, dirExists |-> TRUE, files |-> files]
  ELSE [exceeded |-> BudgetReached(readDailyCost(files, date).totalCostUSD),
        dirExists |-> TRUE, files |-> files]

isDailyBudgetExceededCounts(dirExists, files, date, io) ==
  IF MkdirThrows(dirExists, io)
  THEN [exceeded |-> FALSE, dirExists |-> dirExists, files |-> files]
  ELSE IF ReadThrows(files, date, io)
  THEN [exceeded |-> FALSE, dirExists |-> TRUE, files |-> files]
  ELSE [exceeded |-> BudgetReached(readDailyCost(files, date).totalCostUSD),
        dirExists |-> TRUE,
        files |-> writeDailyCost(files, [readDailyCost(files, date) EXCEPT !.requests = @ + 1])]

\* isDailyBudgetExceeded: its result and the filesystem after the call
\* (ensureLogDir may have created logs/; no file is written). A throw of
\* ensureLogDir or readDailyCost is caught and answered with false.
isDailyBudgetExceeded(dirExists, files, date, io) ==
  IF MkdirThrows(dirExists, io)
  THEN [exceeded |-> FALSE, dirExists |-> dirExists, files |-> files]
  ELSE IF ReadThrows(files, date, io)
  THEN [exceeded |-> FALSE, dirExists |-> TRUE, files |-> files]
  ELSE [exceeded |-> BudgetReached(readDailyCost(files, date).totalCostUSD),
        dirExists |-> TRUE, files |-> files]

\* usage?.prompt_tokens ?? 0 and usage?.completion_tokens ?? 0
PromptTokensOf(completion) ==
  IF completion.usage.present THEN completion.usage.prompt_tokens ELSE 0

CompletionTokensOf(completion) ==
  IF completion.usage.present THEN completion.usage.completion_tokens ELSE 0

recordUsageNoTotal(daily, model, promptTokens, completionTokens) ==
  [daily EXCEPT
     !.requests = @ + 1,
     !.totalPromptTokens = @ + promptTokens,
     !.totalCompletionTokens = @ + completionTokens,
     !.totalCostUSD = @ + calcRequestCost(model, promptTokens, completionTokens)]

recordUsageTwice(daily, model, promptTokens, completionTokens) ==
  [daily EXCEPT
     !.requests = @ + 2,
     !.totalPromptTokens = @ + 2 * promptTokens,
     !.totalCompletionTokens = @ + 2 * completionTokens,
     !.totalTokens = @ + 2 * (promptTokens + completionTokens),
     !.totalCostUSD = @ + 2 * calcRequestCost(model, promptTokens, completionTokens)]

\* the five updates of the daily record
recordUsage(daily, model, promptTokens, completionTokens) ==
  [daily EXCEPT
     !.requests = @ + 1,
     !.totalPromptTokens = @ + promptTokens,
     !.totalCompletionTokens = @ + completionTokens,
     !.totalTokens = @ + promptTokens + completionTokens,
     !.totalCostUSD = @ + calcRequestCost(model, promptTokens, completionTokens)]

\* The entry appended to completions-<date>.log, reduced to its "Daily
\* total ... across N requests today" and "Status" lines.
AuditEntry(address, completion, daily) ==
  [dailyRequests |-> daily.requests,
   overBudget |-> BudgetReached(daily.totalCostUSD)]

\* logCompletion fails before the cost file is written
LedgerIoFails(dirExists, files, date, io) ==
  MkdirThrows(dirExists, io) \/ ReadThrows(files, date, io) \/ io = "writeFail"

logCompletionOverwrites(dirExists, files, audit, date, address, completion, io) ==
  LET daily == recordUsage(readDailyCost(files, date), completion.model,
                           PromptTokensOf(completion), CompletionTokensOf(completion))
  IN  IF MkdirThrows(dirExists, io)
      THEN [dirExists |-> dirExists, files |-> files, audit |-> audit]
      ELSE IF ReadThrows(files, date, io) \/ io = "writeFail"
      THEN [dirExists |-> TRUE, files |-> files, audit |-> audit]
      ELSE IF io = "appendFail"
      THEN [dirExists |-> TRUE, files |-> writeDailyCost(files, daily), audit |-> audit]
      ELSE [dirExists |-> TRUE, files |-> writeDailyCost(files, daily),
            audit |-> [audit EXCEPT ![date] = <<AuditEntry(address, completion, daily)>>]]

logCompletionAuditFirst(dirExists, files, audit, date, address, completion, io) ==
  LET daily == recordUsage(readDailyCost(files, date), completion.model,
                           PromptTokensOf(completion), CompletionTokensOf(completion))
  IN  IF MkdirThrows(dirExists, io)
      THEN [dirExists |-> dirExists, files |-> files, audit |-> audit]
      ELSE IF ReadThrows(files, date, io) \/ io = "appendFail"
      THEN [dirExists |-> TRUE, files |-> files, audit |-> audit]
      ELSE IF io = "writeFail"
      THEN [dirExists |-> TRUE, files |-> files,
            audit |-> [audit EXCEPT ![date] = Append(@, AuditEntry(address, completion, daily))]]
      ELSE [dirExists |-> TRUE, files |-> writeDailyCost(files, daily),
            audit |-> [audit EXCEPT ![date] = Append(@, AuditEntry(address, completion, daily))]]

logCompletionRethrows(dirExists, files, date, io) ==
  LedgerIoFails(dirExists, files, date, io) \/ io = "appendFail"

\* logCompletion throws to its caller: never, its whole body is inside
\* try { ... } catch { console.error }
logCompletionThrows(dirExists, files, date, io) == FALSE

\* logCompletion: the filesystem after the call. Whatever throws is caught
\* and logged to the console; what was written before stays written.
logCompletion(dirExists, files, audit, date, address, completion, io) ==
  LET daily == recordUsage(readDailyCost(files, date), completion.model,
                           PromptTokensOf(completion), CompletionTokensOf(completion))
  IN  IF MkdirThrows(dirExists, io)
      THEN [dirExists |-> dirExists, files |-> files, audit |-> audit]
      ELSE IF ReadThrows(files, date, io) \/ io = "writeFail"
      THEN [dirExists |-> TRUE, files |-> files, audit |-> audit]
      ELSE IF io = "appendFail"
      THEN [dirExists |-> TRUE, files |-> writeDailyCost(files, daily), audit |-> audit]
      ELSE [dirExists |-> TRUE, files |-> writeDailyCost(files, daily),
            audit |-> [audit EXCEPT ![date] = Append(@, AuditEntry(address, completion, daily))]]

\* ------------------------------------------------- the inputs of a request

\* the `address` of the request body: missing or null, "", only whitespace,
\* a place name, or a JSON value that is no string (address?.trim is then
\* no function and the call throws)
AddressKinds == {"absent", "empty", "blank", "text", "nonString"}

\* the ids a completion may echo as `model`: the dated snapshot of the
\* requested "gpt-4o-mini", or that of another tier
EchoModels == {GPT_4O_MINI \o DATE_2024_07_18, GPT_4O \o DATE_2024_08_06}

\* what OpenAI charges per token of each of them, in units of 10^-8 USD
ListPrice(model) ==
  IF model = GPT_4O_MINI \o DATE_2024_07_18
  THEN [input |-> 15, output |-> 60]
  ELSE [input |-> 250, output |-> 1000]

NoUsage == [present |-> FALSE, prompt_tokens |-> 0, completion_tokens |-> 0]

\* completion.usage: absent, or MaxTokens completion tokens for a prompt of
\* twice as many
Usages ==
  {NoUsage,
   [present |-> TRUE, prompt_tokens |-> 2 * MaxTokens, completion_tokens |-> MaxTokens]}

\* choices[0].message.content: null, text that is no JSON, an object without
\* `spots`, an object whose `spots` is no array, or an object whose `spots`
\* names MaxSpots places
Contents ==
  {[kind |-> k, n |-> 0] : k \in {"null", "invalidJson", "noSpotsField", "noArray"}} \cup
  {[kind |-> "spots", n |-> MaxSpots]}

Completions ==
  {[model |-> m, usage |-> u, content |-> c] : m \in EchoModels, u \in Usages, c \in Contents}

\* ------------------------------------------------------------- the state

VARIABLES
  clock,          \* today()
  logDirExists,   \* existsSync(LOG_DIR)
  costFiles,      \* date -> the file cost-<date>.json
  auditLog,       \* date -> the entries of completions-<date>.log
  arrived,        \* requests received so far
  pc,             \* slot -> the await the request in it is suspended at
  stages,         \* slot -> the stages of the request, in the order entered
  calls,          \* slot -> model calls, logCompletion calls, image lookups issued
  pendingImages,  \* slot -> image resolutions not yet settled
  attempts,       \* date -> logCompletion calls made on the date
  recordings,     \* date -> logCompletion calls that wrote the cost file
  billed,         \* date -> the usage and list price of those calls, summed
  last,           \* what the step just taken did (NoEvent: nothing to report)
  costIn,         \* calcRequestCost: its arguments
  costOut,        \* calcRequestCost: its result (-1: not computed yet)
  wikiWorld,      \* fetchWikipediaImage: what each Wikipedia request will meet
  wikiPc,         \* fetchWikipediaImage: the await it is suspended at
  wikiRequests,   \* fetchWikipediaImage: the requests issued, in order
  wikiResult,     \* fetchWikipediaImage: what it returned
  proxyIn,        \* image proxy: the `url` parameter and what the upstream will do
  proxyPc,        \* image proxy: the await the handler is suspended at
  proxyTimer,     \* image proxy: the 8000 ms timer
  proxyAborted,   \* image proxy: controller.abort() has been called
  proxyFetches,   \* image proxy: upstream fetches issued
  proxyResponse,  \* image proxy: the response returned
  enrichIn,       \* enrichment: the parsed spots and what each lookup resolves to
  enrichPc,       \* enrichment: idle, awaiting Promise.all, or done
  enrichPromises, \* enrichment: index -> the promise of spots.map's callback
  enrichFirst,    \* enrichment: the index whose lookup settled first (0: none yet)
  enrichOut       \* enrichment: the response

vars ==
  <<clock, logDirExists, costFiles, auditLog, arrived, pc, stages,
    calls, pendingImages, attempts, recordings, billed, last, costIn, costOut,
    wikiWorld, wikiPc, wikiRequests, wikiResult,
    proxyIn, proxyPc, proxyTimer, proxyAborted, proxyFetches, proxyResponse,
    enrichIn, enrichPc, enrichPromises, enrichFirst, enrichOut>>

ledgerVars == <<logDirExists, costFiles, auditLog, attempts, recordings, billed>>
costVars == <<costIn, costOut>>
wikiVars == <<wikiWorld, wikiPc, wikiRequests, wikiResult>>
proxyVars == <<proxyIn, proxyPc, proxyTimer, proxyAborted, proxyFetches, proxyResponse>>
enrichVars == <<enrichIn, enrichPc, enrichPromises, enrichFirst, enrichOut>>

NoCalls == [model |-> 0, log |-> 0, wiki |-> 0]

\* what the checks before the guardrail saw of a request: whether its body
\* parsed, whether OPENAI_API_KEY is set, and the address of the body (not
\* read when the body did not parse)
NoInput == [bodyOk |-> FALSE, hasKey |-> FALSE, address |-> "unread"]

Input(bodyOk, hasKey, address) ==
  [bodyOk |-> bodyOk, hasKey |-> hasKey,
   address |-> IF bodyOk THEN address ELSE "unread"]

\* `last` reports the step just taken, for the request in `slot`:
\*   input      what the checks before the guardrail saw, in the step that
\*              ran them
\*   checked    isDailyBudgetExceeded was called; readFailed, ensureLogDir
\*              or readDailyCost threw in it; exceeded, its result
\*   logged     logCompletion was called with the completion's `model` and
\*              token counts; recorded, no call of it threw before the cost
\*              file was written; appended, none threw at all; content,
\*              choices[0].message.content; parseThrows, JSON.parse of it
\*              then threw
\*   atCeiling  the persisted total of the date was at or above the ceiling
\*              when the logger was called; crossed, it was below and is at
\*              or above it now
\*   responded  the response was sent, with `status`, after the request went
\*              through `stages` and issued `calls`
NoEvent ==
  [slot |-> 0, input |-> NoInput,
   checked |-> FALSE, readFailed |-> FALSE, exceeded |-> FALSE,
   logged |-> FALSE, model |-> <<>>, promptTokens |-> 0, completionTokens |-> 0,
   recorded |-> FALSE, appended |-> FALSE,
   content |-> [kind |-> "none", n |-> 0], parseThrows |-> FALSE,
   atCeiling |-> FALSE, crossed |-> FALSE,
   responded |-> FALSE, status |-> 0, stages |-> <<>>, calls |-> NoCalls]

\* the response of a request: its status, the stages it went through and
\* the calls it issued
Response(event, code, path, issued) ==
  [event EXCEPT !.responded = TRUE, !.status = code, !.stages = path, !.calls = issued]

InitRequests ==
  /\ arrived = 0
  /\ pc = [r \in Slots |-> "idle"]
  /\ stages = [r \in Slots |-> <<>>]
  /\ calls = [r \in Slots |-> NoCalls]
  /\ pendingImages = [r \in Slots |-> 0]
  /\ last = NoEvent

\* The server starts on date 1 with no logs/ directory.
InitLedger ==
  /\ clock = 1
  /\ logDirExists = FALSE
  /\ costFiles = [d \in Dates |-> NoFile(d)]
  /\ auditLog = [d \in Dates |-> <<>>]
  /\ attempts = [d \in Dates |-> 0]
  /\ recordings = [d \in Dates |-> 0]
  /\ billed = [d \in Dates |-> [promptTokens |-> 0, completionTokens |-> 0, costUSD |-> 0]]

InitCost ==
  /\ costIn = [model |-> GPT_4O_MINI, promptTokens |-> 0, completionTokens |-> 0]
  /\ costOut = -1

\* no image resolution has returned anything yet
NoResult == [kind |-> "pending", url |-> <<>>]

\* a Wikipedia request that is met with a network error
Unreachable == [kind |-> "networkError", url |-> <<>>]

InitWiki ==
  /\ wikiWorld = [direct |-> Unreachable, search |-> Unreachable, summary |-> Unreachable]
  /\ wikiPc = "idle"
  /\ wikiRequests = <<>>
  /\ wikiResult = NoResult

\* the proxy has returned nothing yet
NoResponse == [status |-> 0, body |-> <<>>, contentType |-> "", cacheControl |-> ""]

\* no `url` parameter
NoUrl == [present |-> FALSE, text |-> <<>>]

\* an upstream whose connection fails
DeadUpstream == [kind |-> "networkError", status |-> 0, contentType |-> "", body |-> "none"]

InitProxy ==
  /\ proxyIn = [url |-> NoUrl, upstream |-> DeadUpstream]
  /\ proxyPc = "idle"
  /\ proxyTimer = "unset"
  /\ proxyAborted = FALSE
  /\ proxyFetches = 0
  /\ proxyResponse = NoResponse

\* no payload has been enriched
NoAnswer == [status |-> 0, spots |-> <<>>]

InitEnrich ==
  /\ enrichIn = [spots |-> <<>>, found |-> <<>>]
  /\ enrichPc = "idle"
  /\ enrichPromises = <<>>
  /\ enrichFirst = 0
  /\ enrichOut = NoAnswer

Init == InitLedger /\ InitRequests /\ InitCost /\ InitWiki /\ InitProxy /\ InitEnrich

\* ----------------------------------------------------- the route handler

ValidationOutcomeAddressFirst(bodyOk, hasKey, address) ==
  IF ~bodyOk THEN 500
  ELSE IF address = "nonString" THEN 500
  ELSE IF address \in {"absent", "empty", "blank"} THEN 400
  ELSE IF ~hasKey THEN 401
  ELSE 0

\* The checks between `await request.json()` and the guardrail: the status
\* of the early response, or 0 when the request goes on to the guardrail.
\* A body that is no JSON and an address that is no string throw, and the
\* catch of the handler answers 500.
ValidationOutcome(bodyOk, hasKey, address) ==
  IF ~bodyOk THEN 500
  ELSE IF ~hasKey THEN 401
  ELSE IF address = "nonString" THEN 500
  ELSE IF address \in {"absent", "empty", "blank"} THEN 400
  ELSE 0

GuardrailNeverBlocks(exceeded) == FALSE

\* if (isDailyBudgetExceeded()) return 429
GuardrailBlocks(exceeded) == exceeded

\* JSON.parse(content ?? "{}") throws
ParseThrows(content) == content.kind = "invalidJson"

\* spots.map(...) throws: `spots` has no map
EnrichThrows(content) == content.kind = "noArray"

\* (data.spots ?? []).length
SpotsOf(content) == IF content.kind = "spots" THEN content.n ELSE 0

StagesAfterModelSkipAudit(parseThrows) ==
  IF parseThrows THEN <<"Parsing", "Failed">> ELSE <<"Parsing", "Enriching">>

\* the stages entered once the model call has returned
StagesAfterModel(parseThrows) ==
  IF parseThrows THEN <<"Auditing", "Parsing", "Failed">>
  ELSE <<"Auditing", "Parsing", "Enriching">>

\* The handler returns its response: the request leaves its slot.
Leave(r) ==
  /\ pc' = [pc EXCEPT ![r] = "idle"]
  /\ stages' = [stages EXCEPT ![r] = <<>>]
  /\ calls' = [calls EXCEPT ![r] = NoCalls]
  /\ pendingImages' = [pendingImages EXCEPT ![r] = 0]

\* A request arrives (the handler runs to `await request.json()`, which
\* touches nothing the requests share) and takes the lowest free slot.
Arrives(r) ==
  /\ pc[r] = "idle"
  /\ \A q \in Slots : q < r => pc[q] # "idle"
  /\ arrived < MaxRequests
  /\ arrived' = arrived + 1

\* A request arrives, its body has been read, and a check before the
\* guardrail answers.
Invalid(r) ==
  /\ Arrives(r)
  /\ \E bodyOk \in BOOLEAN, hasKey \in BOOLEAN, address \in AddressKinds :
       LET v == ValidationOutcome(bodyOk, hasKey, address)
       IN  /\ v # 0
           /\ last' = Response([NoEvent EXCEPT
                                  !.slot = r, !.input = Input(bodyOk, hasKey, address)],
                               v,
                               <<"Validating", IF v = 500 THEN "Failed" ELSE "Rejected">>,
                               calls[r])
  /\ UNCHANGED <<clock, ledgerVars, pc, stages, calls, pendingImages, costVars, wikiVars, proxyVars, enrichVars>>

\* A request arrives, its body has been read and is valid: the guardrail is
\* consulted, and the model call is issued (everything up to
\* `await openai.chat.completions.create`).
Guardrail(r) ==
  /\ Arrives(r)
  /\ \E bodyOk \in BOOLEAN, hasKey \in BOOLEAN, address \in AddressKinds,
        io \in {"ok", "mkdirFail", "readFail"} :
       LET b == isDailyBudgetExceeded(logDirExists, costFiles, clock, io)
           seen == [NoEvent EXCEPT
                      !.slot = r, !.input = Input(bodyOk, hasKey, address),
                      !.checked = TRUE,
                      !.readFailed = MkdirThrows(logDirExists, io)
                                       \/ ReadThrows(costFiles, clock, io),
                      !.atCeiling = costFiles[clock].data.totalCostUSD >= DAILY_BUDGET_USD,
                      !.exceeded = b.exceeded]
       IN  /\ ValidationOutcome(bodyOk, hasKey, address) = 0
           /\ logDirExists' = b.dirExists
           /\ costFiles' = b.files
           /\ IF GuardrailBlocks(b.exceeded)
              THEN /\ last' = Response(seen, 429,
                                       <<"Validating", "BudgetChecking", "Rejected">>, calls[r])
                   /\ UNCHANGED <<pc, stages, calls, pendingImages>>
              ELSE /\ pc' = [pc EXCEPT ![r] = "awaitModel"]
                   /\ stages' = [stages EXCEPT ![r] = <<"Validating", "BudgetChecking", "Generating">>]
                   /\ calls' = [calls EXCEPT ![r].model = @ + 1]
                   /\ last' = seen
                   /\ UNCHANGED pendingImages
  /\ UNCHANGED <<clock, auditLog, attempts, recordings, billed, costVars, wikiVars, proxyVars, enrichVars>>

ModelFailsRetries(r) ==
  /\ pc[r] = "awaitModel"
  /\ IF calls[r].model < 2
     THEN /\ calls' = [calls EXCEPT ![r].model = @ + 1]
          /\ last' = NoEvent
          /\ UNCHANGED <<pc, stages, pendingImages>>
     ELSE /\ last' = Response([NoEvent EXCEPT !.slot = r], 500,
                              Append(stages[r], "Failed"), calls[r])
          /\ Leave(r)
  /\ UNCHANGED <<clock, ledgerVars, arrived, costVars, wikiVars, proxyVars, enrichVars>>

ModelFailsBills(r) ==
  /\ pc[r] = "awaitModel"
  /\ last' = Response([NoEvent EXCEPT !.slot = r], 500,
                      Append(stages[r], "Failed"), calls[r])
  /\ Leave(r)
  /\ costFiles' = [costFiles EXCEPT ![clock] =
                     [exists |-> TRUE,
                      data |-> [costFiles[clock].data EXCEPT !.requests = @ + 1]]]
  /\ UNCHANGED <<clock, logDirExists, auditLog, attempts, recordings, billed,
                 arrived, costVars, wikiVars, proxyVars, enrichVars>>

\* The model call rejects: the catch of the handler answers 500.
ModelFails(r) ==
  /\ pc[r] = "awaitModel"
  /\ last' = Response([NoEvent EXCEPT !.slot = r], 500,
                      Append(stages[r], "Failed"), calls[r])
  /\ Leave(r)
  /\ UNCHANGED <<clock, ledgerVars, arrived, costVars, wikiVars, proxyVars, enrichVars>>

\* The model call resolves: logCompletion, JSON.parse, and one image
\* resolution is started per spot (everything up to `await Promise.all`);
\* what JSON.parse or spots.map throws is answered 500 by the catch.
ModelReturns(r) ==
  /\ pc[r] = "awaitModel"
  /\ \E completion \in Completions, io \in IoOutcomes :
       LET L == logCompletion(logDirExists, costFiles, auditLog, clock, "text", completion, io)
           before == costFiles[clock].data.totalCostUSD
           after == L.files[clock].data.totalCostUSD
           failed == LedgerIoFails(logDirExists, costFiles, clock, io)
           logThrows == logCompletionThrows(logDirExists, costFiles, clock, io)
           parseThrows == ParseThrows(completion.content)
           enrichThrows == ~parseThrows /\ EnrichThrows(completion.content)
           throws == logThrows \/ parseThrows \/ enrichThrows
           event == [NoEvent EXCEPT
                       !.slot = r, !.logged = TRUE,
                       !.model = completion.model,
                       !.promptTokens = PromptTokensOf(completion),
                       !.completionTokens = CompletionTokensOf(completion),
                       !.recorded = ~failed,
                       !.appended = ~failed /\ io # "appendFail",
                       !.content = completion.content,
                       !.parseThrows = parseThrows,
                       !.atCeiling = before >= DAILY_BUDGET_USD,
                       !.crossed = before < DAILY_BUDGET_USD /\ after >= DAILY_BUDGET_USD]
           path == stages[r] \o (IF logThrows THEN <<"Auditing", "Failed">>
                                  ELSE IF enrichThrows
                                  THEN StagesAfterModel(FALSE) \o <<"Failed">>
                                  ELSE StagesAfterModel(parseThrows))
           issued == [calls[r] EXCEPT !.log = @ + 1]
       IN  /\ logDirExists' = L.dirExists
           /\ costFiles' = L.files
           /\ auditLog' = L.audit
           /\ attempts' = [attempts EXCEPT ![clock] = @ + 1]
           /\ recordings' = [recordings EXCEPT ![clock] = IF failed THEN @ ELSE @ + 1]
           /\ billed' = IF failed THEN billed
                         ELSE [billed EXCEPT
                                 ![clock].promptTokens = @ + event.promptTokens,
                                 ![clock].completionTokens = @ + event.completionTokens,
                                 ![clock].costUSD =
                                   @ + event.promptTokens * ListPrice(completion.model).input
                                     + event.completionTokens * ListPrice(completion.model).output]
           /\ IF throws
              THEN /\ last' = Response(event, 500, path, issued)
                   /\ Leave(r)
              ELSE /\ pc' = [pc EXCEPT ![r] = "awaitImages"]
                   /\ stages' = [stages EXCEPT ![r] = path]
                   /\ pendingImages' = [pendingImages EXCEPT ![r] = SpotsOf(completion.content)]
                   /\ calls' = [calls EXCEPT ![r] =
                                  [issued EXCEPT !.wiki = @ + SpotsOf(completion.content)]]
                   /\ last' = event
  /\ UNCHANGED <<clock, arrived, costVars, wikiVars, proxyVars, enrichVars>>

\* One image resolution settles (fetchWikipediaImage returns a URL or null).
ImageSettles(r) ==
  /\ pc[r] = "awaitImages"
  /\ pendingImages[r] > 0
  /\ pendingImages' = [pendingImages EXCEPT ![r] = @ - 1]
  /\ last' = NoEvent
  /\ UNCHANGED <<clock, ledgerVars, pc, stages, calls, arrived, costVars, wikiVars, proxyVars, enrichVars>>

RespondEarly(r) ==
  /\ pc[r] = "awaitImages"
  /\ last' = Response([NoEvent EXCEPT !.slot = r], 200,
                      Append(stages[r], "Done"), calls[r])
  /\ Leave(r)
  /\ UNCHANGED <<clock, ledgerVars, arrived, costVars, wikiVars, proxyVars, enrichVars>>

\* Promise.all has resolved: the success response is sent.
Respond(r) ==
  /\ pc[r] = "awaitImages"
  /\ pendingImages[r] = 0
  /\ last' = Response([NoEvent EXCEPT !.slot = r], 200,
                      Append(stages[r], "Done"), calls[r])
  /\ Leave(r)
  /\ UNCHANGED <<clock, ledgerVars, arrived, costVars, wikiVars, proxyVars, enrichVars>>

\* Midnight: today() moves to the next date.
Tick ==
  /\ clock + 1 \in Dates
  /\ clock' = clock + 1
  /\ last' = NoEvent
  /\ UNCHANGED <<ledgerVars, pc, stages, calls, pendingImages, arrived, costVars, wikiVars, proxyVars, enrichVars>>

Next ==
  \/ \E r \in Slots : Invalid(r)
  \/ \E r \in Slots : Guardrail(r)
  \/ \E r \in Slots : ModelFails(r)
  \/ \E r \in Slots : ModelReturns(r)
  \/ \E r \in Slots : ImageSettles(r)
  \/ \E r \in Slots : Respond(r)
  \/ Tick

Spec == Init /\ [][Next]_vars

\* Every external call eventually returns or fails: an awaited model call
\* settles, an awaited image resolution settles, and a handler whose awaits
\* have settled runs on.
SpecFair ==
  /\ Spec
  /\ \A r \in Slots :
       /\ WF_vars(ModelFails(r) \/ ModelReturns(r))
       /\ WF_vars(ImageSettles(r))
       /\ WF_vars(Respond(r))

\* ------------------------------------------- calcRequestCost on its own

\* "-YYYY-MM-DD" suffixes
DateSuffixes == {DATE_2024_07_18, DATE_2024_08_06}

\* ids that are in the pricing table neither as they are nor without a
\* date suffix: another family, a four-digit snapshot, a year-month suffix,
\* and a dated snapshot of another family
UnknownModels ==
  {O1_MINI, GPT_4_0613, GPT_4O_MINI_2024_07, O1_MINI \o DATE_2024_07_18}

CostModels ==
  PricedModels \cup {m \o s : m \in PricedModels, s \in DateSuffixes} \cup UnknownModels

CostTokens == 0..(MaxTokens + 1)

\* any model id and token counts, cost not computed yet
InitCostInputs ==
  /\ costIn \in [model : CostModels, promptTokens : CostTokens, completionTokens : CostTokens]
  /\ costOut = -1

ComputeCost ==
  /\ costOut = -1
  /\ costOut' = calcRequestCost(costIn.model, costIn.promptTokens, costIn.completionTokens)
  /\ UNCHANGED <<clock, ledgerVars, arrived, pc, stages, calls, pendingImages, last, costIn,
                 wikiVars, proxyVars, enrichVars>>

NextCost == ComputeCost

InitCostOnly == InitLedger /\ InitRequests /\ InitCostInputs /\ InitWiki /\ InitProxy /\ InitEnrich

SpecCost == InitCostOnly /\ [][NextCost]_vars

\* ---------------------------------------- fetchWikipediaImage on its own
\* A thumbnail URL is the sequence of its path segments; `px` is the number
\* of a segment that begins with "<digits>px-" (0: it does not), `rest` what
\* follows.

Segment(px, rest) == [px |-> px, rest |-> rest]

\* .../commons/thumb/Fort.jpg/320px-Fort.jpg, a URL with no width in it, and
\* one with two
Thumbnails ==
  {<<Segment(0, "commons"), Segment(0, "thumb"), Segment(0, "Fort.jpg"), Segment(320, "Fort.jpg")>>,
   <<Segment(0, "commons"), Segment(0, "Fort.jpg")>>,
   <<Segment(0, "thumb"), Segment(60, "dir"), Segment(320, "Fort.jpg")>>}

upscaleKeeps(url) == url

\* url.replace(/\/\d+px-/, "/640px-"): the first match only
upscale(url) ==
  IF \E i \in 1..Len(url) : url[i].px > 0
  THEN LET first == CHOOSE i \in 1..Len(url) :
                      /\ url[i].px > 0
                      /\ \A j \in 1..(i - 1) : url[j].px = 0
       IN  [url EXCEPT ![first].px = 640]
  ELSE url

\* What a summary request meets: fetch rejects; a status that is not OK;
\* a body res.json() rejects, or that has no object in it; an object
\* without thumbnail.source; an object with one.
SummaryOutcomes ==
  {[kind |-> k, url |-> <<>>] : k \in {"networkError", "notOk", "badBody", "noThumbnail"}}
    \cup {[kind |-> "thumbnail", url |-> t] : t \in Thumbnails}

\* What the direct lookup meets: the same, or a spot name that is no
\* string, for which spotName.trim() throws before the request is issued.
DirectOutcomes == SummaryOutcomes \cup {[kind |-> "noName", url |-> <<>>]}

\* What the search request meets: the same, with query.search[0].title
\* missing or present.
SearchOutcomes ==
  {[kind |-> k, url |-> <<>>] :
     k \in {"networkError", "notOk", "badBody", "noResults", "title"}}

directLookupGivesUp(met) ==
  IF met.kind = "thumbnail" THEN [kind |-> "url", url |-> upscale(met.url)]
  ELSE IF met.kind = "notOk" THEN [kind |-> "null", url |-> <<>>]
  ELSE [kind |-> "nothing", url |-> <<>>]

\* Step 1: the upscaled thumbnail, or nothing (a status that is not OK and
\* a missing thumbnail fall through, an error is caught and logged)
directLookup(met) ==
  IF met.kind = "thumbnail" THEN [kind |-> "url", url |-> upscale(met.url)]
  ELSE [kind |-> "nothing", url |-> <<>>]

summaryLookupThrows(met) ==
  IF met.kind = "thumbnail" THEN [kind |-> "url", url |-> upscale(met.url)]
  ELSE IF met.kind \in {"networkError", "badBody"} THEN [kind |-> "raised", url |-> <<>>]
  ELSE [kind |-> "null", url |-> <<>>]

\* Step 2, the summary of the top hit: the upscaled thumbnail, or null
summaryLookup(met) ==
  IF met.kind = "thumbnail" THEN [kind |-> "url", url |-> upscale(met.url)]
  ELSE [kind |-> "null", url |-> <<>>]

\* any answers of the three requests; nothing issued yet
InitWikiInputs ==
  /\ wikiWorld \in [direct : DirectOutcomes, search : SearchOutcomes, summary : SummaryOutcomes]
  /\ wikiPc = "idle"
  /\ wikiRequests = <<>>
  /\ wikiResult = NoResult

wikiFrame ==
  UNCHANGED <<clock, ledgerVars, arrived, pc, stages, calls, pendingImages, last, costVars,
              wikiWorld, proxyVars, enrichVars>>

\* fetchWikipediaImage is called: the direct summary request is issued, or
\* building its slug throws, the catch logs it and the search is issued
WikiCalled ==
  /\ wikiPc = "idle"
  /\ IF wikiWorld.direct.kind = "noName"
     THEN /\ wikiRequests' = <<"search(name)">>
          /\ wikiPc' = "search"
     ELSE /\ wikiRequests' = <<"summary(name)">>
          /\ wikiPc' = "direct"
  /\ UNCHANGED wikiResult
  /\ wikiFrame

\* the direct request settles: return the thumbnail, or issue the search
WikiDirectSettles ==
  /\ wikiPc = "direct"
  /\ LET step == directLookup(wikiWorld.direct)
     IN  IF step.kind = "nothing"
         THEN /\ wikiRequests' = Append(wikiRequests, "search(name)")
              /\ wikiPc' = "search"
              /\ UNCHANGED wikiResult
         ELSE /\ wikiResult' = step
              /\ wikiPc' = "done"
              /\ UNCHANGED wikiRequests
  /\ wikiFrame

\* the search settles: return null, or issue the summary request of the
\* top hit
WikiSearchSettles ==
  /\ wikiPc = "search"
  /\ IF wikiWorld.search.kind = "title"
     THEN /\ wikiRequests' = Append(wikiRequests, "summary(title)")
          /\ wikiPc' = "summary"
          /\ UNCHANGED wikiResult
     ELSE /\ wikiResult' = [kind |-> "null", url |-> <<>>]
          /\ wikiPc' = "done"
          /\ UNCHANGED wikiRequests
  /\ wikiFrame

\* the second summary request settles
WikiSummarySettles ==
  /\ wikiPc = "summary"
  /\ wikiResult' = summaryLookup(wikiWorld.summary)
  /\ wikiPc' = "done"
  /\ UNCHANGED wikiRequests
  /\ wikiFrame

NextWiki ==
  \/ WikiCalled
  \/ WikiDirectSettles
  \/ WikiSearchSettles
  \/ WikiSummarySettles

InitWikiOnly == InitLedger /\ InitRequests /\ InitCost /\ InitWikiInputs /\ InitProxy /\ InitEnrich

SpecWiki == InitWikiOnly /\ [][NextWiki]_vars

\* --------------------------------------- the image proxy (GET) on its own
\* The text of a URL is the sequence of its tokens: a scheme, "://", the
\* labels of the host (the dots between them left out), and the
\* punctuation "@", ":" and "/" with what follows.

ALLOWED_HOST == <<"upload", "wikimedia", "org">>

Url(text) == [present |-> TRUE, text |-> text]

\* URLs of the allow-listed host: plain, over http, in upper case, with a port
AllowedUrls ==
  {Url(<<"https", "://", "upload", "wikimedia", "org", "/", "a.jpg">>),
   Url(<<"http", "://", "upload", "wikimedia", "org", "/", "a.jpg">>),
   Url(<<"https", "://", "UPLOAD", "wikimedia", "org", "/", "a.jpg">>),
   Url(<<"https", "://", "upload", "wikimedia", "org", ":", "8080", "/", "a.jpg">>)}

\* URLs of other hosts: the allowed name as a prefix, as a suffix, one of
\* its parents, as userinfo, in the path; and a URL that has no host
ForeignUrls ==
  {Url(<<"https", "://", "upload", "wikimedia", "org", "evil", "com", "/", "a.jpg">>),
   Url(<<"https", "://", "evil", "upload", "wikimedia", "org", "/", "a.jpg">>),
   Url(<<"https", "://", "wikimedia", "org", "/", "a.jpg">>),
   Url(<<"https", "://", "upload", "wikimedia", "org", "@", "evil", "com", "/", "a.jpg">>),
   Url(<<"https", "://", "evil", "com", "/", "upload", "wikimedia", "org", "/", "a.jpg">>),
   Url(<<"https", "://", "evil", "com">>),
   Url(<<"data", ":", "a.jpg">>)}

\* texts `new URL` rejects: no scheme, a path alone, a scheme without host
UnparsableUrls ==
  {Url(<<"upload", "wikimedia", "org", "/", "a.jpg">>),
   Url(<<"/", "a.jpg">>),
   Url(<<"https", "://">>)}

\* the parameter is missing, or empty
AbsentUrls == {NoUrl, Url(<<>>)}

RawUrls == AllowedUrls \cup ForeignUrls \cup UnparsableUrls \cup AbsentUrls

\* the URL parser lower-cases the host
LowerCase(label) == IF label = "UPLOAD" THEN "upload" ELSE label

\* the tokens of `text` before the first `mark`, all of them if there is none
Before(text, mark) ==
  IF \E i \in 1..Len(text) : text[i] = mark
  THEN SubSeq(text, 1, (CHOOSE i \in 1..Len(text) :
                          /\ text[i] = mark
                          /\ \A j \in 1..(i - 1) : text[j] # mark) - 1)
  ELSE text

\* the tokens of `text` after the last `mark`, all of them if there is none
AfterLast(text, mark) ==
  IF \E i \in 1..Len(text) : text[i] = mark
  THEN SubSeq(text, (CHOOSE i \in 1..Len(text) :
                       /\ text[i] = mark
                       /\ \A j \in (i + 1)..Len(text) : text[j] # mark) + 1, Len(text))
  ELSE text

\* new URL(url): ok is FALSE when it throws; hostname is the host without
\* userinfo and port, lower-cased (empty for a URL that has no authority)
ParseUrl(text) ==
  IF Len(text) >= 2 /\ text[1] \in {"https", "http"} /\ text[2] = "://"
  THEN LET authority == Before(SubSeq(text, 3, Len(text)), "/")
           host == Before(AfterLast(authority, "@"), ":")
       IN  IF host = <<>>
           THEN [ok |-> FALSE, hostname |-> <<>>]
           ELSE [ok |-> TRUE, hostname |-> [i \in 1..Len(host) |-> LowerCase(host[i])]]
  ELSE IF Len(text) >= 2 /\ text[1] = "data" /\ text[2] = ":"
  THEN [ok |-> TRUE, hostname |-> <<>>]
  ELSE [ok |-> FALSE, hostname |-> <<>>]

HostAllowedBySuffix(hostname) ==
  /\ Len(hostname) >= Len(ALLOWED_HOST)
  /\ SubSeq(hostname, Len(hostname) - Len(ALLOWED_HOST) + 1, Len(hostname)) = ALLOWED_HOST

\* new URL(url).hostname !== ALLOWED_HOST is false
HostAllowed(hostname) == hostname = ALLOWED_HOST

Plain(status, message) ==
  [status |-> status, body |-> message, contentType |-> "text/plain", cacheControl |-> ""]

ValidateHostFirst(url) ==
  IF ~url.present \/ url.text = <<>> THEN Plain(400, <<"Missing url parameter">>)
  ELSE IF ~HostAllowed(ParseUrl(url.text).hostname) THEN Plain(403, <<"Host not allowed">>)
  ELSE IF ~ParseUrl(url.text).ok THEN Plain(400, <<"Invalid URL">>)
  ELSE NoResponse

\* The checks before the upstream fetch: the response they return, or
\* NoResponse when the URL passes.
Validate(url) ==
  IF ~url.present \/ url.text = <<>> THEN Plain(400, <<"Missing url parameter">>)
  ELSE IF ~ParseUrl(url.text).ok THEN Plain(400, <<"Invalid URL">>)
  ELSE IF ~HostAllowed(ParseUrl(url.text).hostname) THEN Plain(403, <<"Host not allowed">>)
  ELSE NoResponse

FetchFailureSameMessage(aborted) == Plain(502, <<"Failed to fetch image">>)

\* the catch around the fetch: err.name === "AbortError" picks the message
FetchFailure(aborted) ==
  Plain(502, IF aborted THEN <<"Image fetch timed out">> ELSE <<"Failed to fetch image">>)

CACHE_CONTROL == "public, max-age=604800, stale-while-revalidate=86400"

\* res.ok
Ok(status) == status >= 200 /\ status <= 299

\* the response for an upstream status that is not OK
UpstreamError(status) == Plain(status, <<"Upstream error: ", status>>)

ImageWithoutDefault(upstream) ==
  [status |-> 200, body |-> <<"bytes of", upstream.status>>,
   contentType |-> upstream.contentType, cacheControl |-> CACHE_CONTROL]

\* the response for an upstream body that has been read
Image(upstream) ==
  [status |-> 200, body |-> <<"bytes of", upstream.status>>,
   contentType |-> IF upstream.contentType = "" THEN "image/jpeg" ELSE upstream.contentType,
   cacheControl |-> CACHE_CONTROL]

\* What the upstream does: the connection fails; nothing ever comes; or
\* response headers come, with a status and perhaps a content-type, and the
\* body then arrives, fails, or never ends. The body of a response that is
\* not OK is not read.
Upstreams ==
  {[kind |-> k, status |-> 0, contentType |-> "", body |-> "none"] :
     k \in {"networkError", "stallHeaders"}}
    \cup {[kind |-> "responds", status |-> st, contentType |-> ct, body |-> b] :
            st \in {200, 204}, ct \in {"", "image/png"}, b \in {"bytes", "bodyError", "stallBody"}}
    \cup {[kind |-> "responds", status |-> st, contentType |-> ct, body |-> "none"] :
            st \in {404, 500, 502}, ct \in {"", "text/html"}}

InitProxyInputs ==
  /\ proxyIn \in [url : RawUrls, upstream : Upstreams]
  /\ proxyPc = "idle"
  /\ proxyTimer = "unset"
  /\ proxyAborted = FALSE
  /\ proxyFetches = 0
  /\ proxyResponse = NoResponse

proxyFrame ==
  UNCHANGED <<clock, ledgerVars, arrived, pc, stages, calls, pendingImages, last, costVars,
              wikiVars, proxyIn, enrichVars>>

\* The request arrives: it is answered 400 or 403, or the timer is set and
\* the upstream fetch is issued.
ProxyGet ==
  /\ proxyPc = "idle"
  /\ IF Validate(proxyIn.url) # NoResponse
     THEN /\ proxyResponse' = Validate(proxyIn.url)
          /\ proxyPc' = "done"
          /\ UNCHANGED <<proxyTimer, proxyFetches>>
     ELSE /\ proxyTimer' = "set"
          /\ proxyFetches' = proxyFetches + 1
          /\ proxyPc' = "fetching"
          /\ UNCHANGED proxyResponse
  /\ UNCHANGED proxyAborted
  /\ proxyFrame

\* 8000 ms have passed with the timer set: controller.abort() rejects the
\* fetch with an AbortError, and the catch clears the timer and answers.
ProxyTimerFires ==
  /\ proxyTimer = "set"
  /\ proxyPc = "fetching"
  /\ proxyAborted' = TRUE
  /\ proxyTimer' = "cleared"
  /\ proxyResponse' = FetchFailure(TRUE)
  /\ proxyPc' = "done"
  /\ UNCHANGED proxyFetches
  /\ proxyFrame

\* the fetch rejects with a network error
ProxyFetchRejects ==
  /\ proxyPc = "fetching"
  /\ proxyIn.upstream.kind = "networkError"
  /\ proxyTimer' = "cleared"
  /\ proxyResponse' = FetchFailure(FALSE)
  /\ proxyPc' = "done"
  /\ UNCHANGED <<proxyAborted, proxyFetches>>
  /\ proxyFrame

\* The fetch resolves with the response headers: the timer is cleared; a
\* status that is not OK is answered at once, else the body is awaited.
ProxyHeadersArrive ==
  /\ proxyPc = "fetching"
  /\ proxyIn.upstream.kind = "responds"
  /\ proxyTimer' = "cleared"
  /\ IF Ok(proxyIn.upstream.status)
     THEN /\ proxyPc' = "reading"
          /\ UNCHANGED proxyResponse
     ELSE /\ proxyResponse' = UpstreamError(proxyIn.upstream.status)
          /\ proxyPc' = "done"
  /\ UNCHANGED <<proxyAborted, proxyFetches>>
  /\ proxyFrame

\* res.arrayBuffer() resolves
ProxyBodyArrives ==
  /\ proxyPc = "reading"
  /\ proxyIn.upstream.body = "bytes"
  /\ proxyResponse' = Image(proxyIn.upstream)
  /\ proxyPc' = "done"
  /\ UNCHANGED <<proxyTimer, proxyAborted, proxyFetches>>
  /\ proxyFrame

\* res.arrayBuffer() rejects
ProxyBodyFails ==
  /\ proxyPc = "reading"
  /\ proxyIn.upstream.body = "bodyError"
  /\ proxyResponse' = FetchFailure(FALSE)
  /\ proxyPc' = "done"
  /\ UNCHANGED <<proxyTimer, proxyAborted, proxyFetches>>
  /\ proxyFrame

NextProxy ==
  \/ ProxyGet
  \/ ProxyTimerFires
  \/ ProxyFetchRejects
  \/ ProxyHeadersArrive
  \/ ProxyBodyArrives
  \/ ProxyBodyFails

InitProxyOnly == InitLedger /\ InitRequests /\ InitCost /\ InitWiki /\ InitProxyInputs /\ InitEnrich

SpecProxy == InitProxyOnly /\ [][NextProxy]_vars

\* The event loop runs every callback that is ready, and the timer fires
\* when its time has come; an upstream that stalls enables no step.
SpecProxyFair == SpecProxy /\ WF_vars(NextProxy)

\* ------------------------------------------- the enrichment on its own
\* data.spots = await Promise.all(spots.map(async (spot) => ...)), then
\* NextResponse.json(data): of a spot, its id, its name and its category
\* (standing for the fields the enrichment only copies) and its imageUrl.

Absent == [kind |-> "absent", of |-> 0]
Null == [kind |-> "null", of |-> 0]

\* the URL fetchWikipediaImage finds for the i-th place
ImageOf(i) == [kind |-> "url", of |-> i]

\* the i-th spot of a parsed payload: the model sets no imageUrl
ParsedSpot(i) ==
  [id |-> <<"spot-", i>>, name |-> <<"place", i>>,
   category |-> IF i % 2 = 0 THEN "Nature" ELSE "Historical",
   imageUrl |-> Absent]

\* payloads of up to MaxShortList spots, and of the PROMPT_SPOTS the prompt
\* asks for
SpotCounts == 0..MaxShortList \cup {PROMPT_SPOTS}

\* What the lookups resolve to, place by place: its image, or null. Every
\* combination for a short payload; for a long one, all found or exactly
\* one not.
Findings(n) ==
  {f \in [1..n -> BOOLEAN] :
     n <= MaxShortList \/ Cardinality({i \in 1..n : ~f[i]}) <= 1}

EnrichInputs ==
  UNION {{[spots |-> [i \in 1..n |-> ParsedSpot(i)],
           found |-> [i \in 1..n |-> IF f[i] THEN ImageOf(i) ELSE Null]] :
            f \in Findings(n)} : n \in SpotCounts}

Pending == [lookups |-> 0, settled |-> FALSE, writes |-> 0, value |-> ParsedSpot(0)]

EnrichedBare(spot, image) ==
  [id |-> spot.id, name |-> <<>>, category |-> "", imageUrl |-> image]

\* { ...spot, imageUrl: imageUrl ?? null }
Enriched(spot, image) ==
  [spot EXCEPT !.imageUrl = IF image.kind = "url" THEN image ELSE Null]

\* the array Promise.all resolves to: the values of the promises, each at
\* the index of its promise
PromiseAll(promises) == [i \in 1..Len(promises) |-> promises[i].value]

InitEnrichInputs ==
  /\ enrichIn \in EnrichInputs
  /\ enrichPc = "idle"
  /\ enrichPromises = <<>>
  /\ enrichFirst = 0
  /\ enrichOut = NoAnswer

enrichFrame ==
  UNCHANGED <<clock, ledgerVars, arrived, pc, stages, calls, pendingImages, last, costVars,
              wikiVars, proxyVars, enrichIn>>

\* spots.map runs: the callback is called for every spot in turn, and each
\* call runs up to its `await fetchWikipediaImage(spot.name)`
EnrichStarts ==
  /\ enrichPc = "idle"
  /\ enrichPromises' = [i \in 1..Len(enrichIn.spots) |-> [Pending EXCEPT !.lookups = 1]]
  /\ enrichPc' = "awaiting"
  /\ UNCHANGED <<enrichFirst, enrichOut>>
  /\ enrichFrame

LookupSettlesRaises(i) ==
  /\ enrichPc = "awaiting"
  /\ i \in 1..Len(enrichPromises)
  /\ ~enrichPromises[i].settled
  /\ enrichFirst' = IF enrichFirst = 0 THEN i ELSE enrichFirst
  /\ IF enrichIn.found[i] = Null
     THEN /\ enrichPc' = "done"
          /\ enrichOut' = [status |-> 500, spots |-> <<>>]
          /\ UNCHANGED enrichPromises
     ELSE /\ enrichPromises' =
               [enrichPromises EXCEPT
                  ![i] = [@ EXCEPT !.settled = TRUE, !.writes = @ + 1,
                                   !.value = Enriched(enrichIn.spots[i], enrichIn.found[i])]]
          /\ UNCHANGED <<enrichPc, enrichOut>>
  /\ enrichFrame

\* the lookup of the i-th spot settles, in whatever order the network
\* decides: the callback goes on and returns the spot with its imageUrl
LookupSettles(i) ==
  /\ enrichPc = "awaiting"
  /\ i \in 1..Len(enrichPromises)
  /\ ~enrichPromises[i].settled
  /\ enrichPromises' =
       [enrichPromises EXCEPT
          ![i] = [@ EXCEPT !.settled = TRUE, !.writes = @ + 1,
                           !.value = Enriched(enrichIn.spots[i], enrichIn.found[i])]]
  /\ enrichFirst' = IF enrichFirst = 0 THEN i ELSE enrichFirst
  /\ UNCHANGED <<enrichPc, enrichOut>>
  /\ enrichFrame

EnrichRespondsFirstSettledFirst ==
  /\ enrichPc = "awaiting"
  /\ \A i \in 1..Len(enrichPromises) : enrichPromises[i].settled
  /\ enrichOut' =
       [status |-> 200,
        spots |-> IF enrichFirst = 0 THEN <<>>
                  ELSE <<enrichPromises[enrichFirst].value>> \o
                       PromiseAll(SelectSeq(enrichPromises,
                                            LAMBDA q : q # enrichPromises[enrichFirst]))]
  /\ enrichPc' = "done"
  /\ UNCHANGED <<enrichPromises, enrichFirst>>
  /\ enrichFrame

\* every promise is fulfilled: Promise.all resolves, data.spots is assigned
\* and the response is sent
EnrichResponds ==
  /\ enrichPc = "awaiting"
  /\ \A i \in 1..Len(enrichPromises) : enrichPromises[i].settled
  /\ enrichOut' = [status |-> 200, spots |-> PromiseAll(enrichPromises)]
  /\ enrichPc' = "done"
  /\ UNCHANGED <<enrichPromises, enrichFirst>>
  /\ enrichFrame

NextEnrich ==
  \/ EnrichStarts
  \/ \E i \in 1..Len(enrichIn.spots) : LookupSettles(i)
  \/ EnrichResponds

InitEnrichOnly == InitLedger /\ InitRequests /\ InitCost /\ InitWiki /\ InitProxy /\ InitEnrichInputs

SpecEnrich == InitEnrichOnly /\ [][NextEnrich]_vars

\* ------------------------------------------------------------ properties

\* "BudgetChecking" is on the path before "Generating"
CheckedBeforeGenerating(path) ==
  \A j \in 1..Len(path) :
    path[j] = "Generating" => \E i \in 1..(j - 1) : path[i] = "BudgetChecking"

\* C1: the model call of a request is issued only after isDailyBudgetExceeded
\* has been evaluated in that request and returned false; when it returns
\* true the request is answered with 429 and issues no model call.
C1_GuardrailBeforeModel ==
  /\ \A r \in Slots :
       calls[r].model > 0 =>
         /\ pc[r] # "idle"
         /\ CheckedBeforeGenerating(stages[r])
         /\ \E j \in 1..Len(stages[r]) : stages[r][j] = "Generating"
  /\ last.responded /\ last.calls.model > 0 =>
       /\ CheckedBeforeGenerating(last.stages)
       /\ \E j \in 1..Len(last.stages) : last.stages[j] = "Generating"
  /\ last.checked /\ last.exceeded =>
       /\ last.responded /\ last.status = 429
       /\ last.calls.model = 0
       /\ calls[last.slot].model = 0 /\ pc[last.slot] = "idle"
  /\ last.checked /\ ~last.exceeded =>
       /\ ~last.responded
       /\ calls[last.slot].model = 1 /\ pc[last.slot] = "awaitModel"
  /\ last.responded /\ last.status = 429 => last.checked /\ last.exceeded

\* a request is answered 429 after an earlier one has been billed
C1_Witness ==
  /\ last.checked /\ last.exceeded
  /\ last.responded /\ last.status = 429 /\ last.calls.model = 0
  /\ attempts[clock] = 1

\* C2 as stated: when the second of two overlapping requests whose model
\* calls both succeeded has gone through logCompletion on the same date, the
\* record of the date counts both.
C2_BothCounted ==
  /\ last.logged
  /\ attempts[clock] = 2
  /\ \E r \in Slots \ {last.slot} : pc[r] = "awaitImages"
  => costFiles[clock].data.requests = 2

\* C2, amended: the record of every date counts, and sums the usage and cost
\* of, exactly the logCompletion calls of that date in which neither the
\* creation of logs/ nor the read nor the write of the cost file failed;
\* no interleaving of requests loses one of them.
C2_NoLostUpdate ==
  \A d \in Dates :
    /\ costFiles[d].data.requests = recordings[d]
    /\ costFiles[d].data.totalPromptTokens = billed[d].promptTokens
    /\ costFiles[d].data.totalCompletionTokens = billed[d].completionTokens
    /\ costFiles[d].data.totalTokens = billed[d].promptTokens + billed[d].completionTokens
    /\ costFiles[d].data.totalCostUSD = billed[d].costUSD
    /\ costFiles[d].exists <=> recordings[d] > 0

\* two overlapping requests have both been recorded on the same date
C2_Witness ==
  /\ last.logged /\ last.recorded /\ last.promptTokens > 0
  /\ \E r \in Slots \ {last.slot} : pc[r] = "awaitImages"
  /\ recordings[clock] = 2
  /\ costFiles[clock].data.requests = 2

\* the request whose recorded cost crosses the ceiling goes on as any other
CrossingCompletes ==
  last.logged /\ last.crossed =>
    /\ last.recorded
    /\ last.responded =>
         /\ last.parseThrows \/ last.content.kind = "noArray"
         /\ last.status = 500
    /\ ~last.parseThrows /\ last.content.kind # "noArray" =>
         ~last.responded /\ pc[last.slot] = "awaitImages"

\* C3 as stated: the request that brings the total to or above the ceiling
\* still completes, and a request that meets the guardrail while the total
\* of the date is at or above the ceiling is rejected with 429 without a
\* model call.
C3_NextRejected ==
  /\ CrossingCompletes
  /\ last.checked /\ last.atCeiling =>
       last.responded /\ last.status = 429 /\ last.calls.model = 0

\* C3, amended: ... is rejected with 429 without a model call, provided the
\* guardrail can read the cost record.
C3_NextRejectedIfRead ==
  /\ CrossingCompletes
  /\ last.checked /\ last.atCeiling /\ ~last.readFailed =>
       last.responded /\ last.status = 429 /\ last.calls.model = 0

\* one request has brought the total to exactly the ceiling, and the next
\* is rejected
C3_Witness ==
  /\ last.checked /\ last.atCeiling /\ ~last.readFailed
  /\ last.status = 429
  /\ recordings[clock] = 1
  /\ costFiles[clock].data.totalCostUSD = DAILY_BUDGET_USD

\* C4: once the total of the date is at or above the ceiling, no further
\* usage is billed on that date.
C4_NoBillingAtCeiling ==
  last.logged /\ last.recorded => ~last.atCeiling

\* C5: when ensureLogDir or readDailyCost throws in isDailyBudgetExceeded,
\* it returns false: the request is not rejected and its model call is
\* issued.
C5_FailsOpen ==
  last.checked /\ last.readFailed =>
    /\ ~last.exceeded
    /\ ~last.responded
    /\ pc[last.slot] = "awaitModel" /\ calls[last.slot].model = 1

\* the read fails while the record is at or above the ceiling
C5_Witness ==
  /\ last.checked /\ last.readFailed /\ last.atCeiling
  /\ calls[last.slot].model = 1

\* C6: a recording of p prompt and c completion tokens of model m adds 1 to
\* requests, p, c and p + c to the token totals and p * inputPrice(m) +
\* c * outputPrice(m) to totalCostUSD of today's record, which is persisted;
\* the records of the other dates stay as they are, and no record is ever
\* deleted.
C6_ExactDelta ==
  [][/\ last'.logged /\ last'.recorded =>
          /\ costFiles'[clock].exists
          /\ costFiles'[clock].data =
               [date |-> clock,
                requests |-> costFiles[clock].data.requests + 1,
                totalPromptTokens |->
                  costFiles[clock].data.totalPromptTokens + last'.promptTokens,
                totalCompletionTokens |->
                  costFiles[clock].data.totalCompletionTokens + last'.completionTokens,
                totalTokens |->
                  costFiles[clock].data.totalTokens
                    + last'.promptTokens + last'.completionTokens,
                totalCostUSD |->
                  costFiles[clock].data.totalCostUSD
                    + last'.promptTokens * ListPrice(last'.model).input
                    + last'.completionTokens * ListPrice(last'.model).output]
          /\ \A d \in Dates \ {clock} : costFiles'[d] = costFiles[d]
     /\ \A d \in Dates : costFiles[d].exists => costFiles'[d].exists]_vars

\* a usage is recorded on the second date while the first has its record
C6_Witness ==
  /\ last.logged /\ last.recorded /\ last.completionTokens > 0
  /\ clock = 2
  /\ costFiles[1].exists /\ costFiles[1].data.totalCostUSD > 0
  /\ costFiles[2].data.requests = 1

TokensAddUp(file) ==
  file.data.totalTokens = file.data.totalPromptTokens + file.data.totalCompletionTokens

\* C7: the record of every date has totalTokens = totalPromptTokens +
\* totalCompletionTokens, and neither its totalCostUSD nor its requests
\* decreases in any step.
C7_LedgerInvariant ==
  [][\A d \in Dates :
       /\ TokensAddUp(costFiles[d]) /\ TokensAddUp(costFiles'[d])
       /\ costFiles'[d].data.totalCostUSD >= costFiles[d].data.totalCostUSD
       /\ costFiles'[d].data.requests >= costFiles[d].data.requests]_vars

\* a record that two recordings have built is still there the next day
C7_Witness ==
  /\ clock = 2
  /\ costFiles[1].data.requests = 2
  /\ costFiles[1].data.totalTokens > 0

\* C8: the cost of a priced id m followed by a date suffix is the cost of m,
\* p * PRICING[m].input + c * PRICING[m].output; an id unknown after
\* normalization costs what gpt-4o-mini costs.
C8_Normalization ==
  costOut # -1 =>
    /\ \A m \in PricedModels :
         costIn.model \in {m} \cup {m \o s : s \in DateSuffixes} =>
           costOut = costIn.promptTokens * PRICING[m].input
                       + costIn.completionTokens * PRICING[m].output
    /\ costIn.model \in UnknownModels =>
         costOut = costIn.promptTokens * PRICING[GPT_4O_MINI].input
                     + costIn.completionTokens * PRICING[GPT_4O_MINI].output

\* the cost of a dated id of a tier other than the default has been computed
C8_Witness ==
  /\ costOut > 0
  /\ costIn.model = GPT_4 \o DATE_2024_08_06
  /\ costIn.promptTokens > 0 /\ costIn.completionTokens > 0

\* C9: a request answered 401, 400 or 429 has issued no model call and no
\* image lookup, and its step leaves every cost file and the audit log as
\* they were.
C9_RejectionFrame ==
  [][last'.responded /\ last'.status \in {400, 401, 429} =>
       /\ last'.calls = NoCalls
       /\ calls'[last'.slot] = NoCalls
       /\ costFiles' = costFiles
       /\ auditLog' = auditLog]_vars

\* a request is answered 429 while the date has a record and an audit entry
C9_Witness ==
  /\ last.responded /\ last.status = 429
  /\ costFiles[clock].data.requests = 1
  /\ Len(auditLog[clock]) = 1

StageOrder ==
  <<"Validating", "BudgetChecking", "Generating", "Auditing", "Parsing", "Enriching">>

Outcomes == {"Done", "Rejected", "Failed"}

\* the stages are entered in order, none skipped, none twice
ForwardPass(path) ==
  \A i \in 1..Len(path) :
    \/ i <= Len(StageOrder) /\ path[i] = StageOrder[i]
    \/ i = Len(path) /\ path[i] \in Outcomes

\* the calls a request has issued are those of the stages it has entered
CallsMatch(path, issued) ==
  /\ issued.model = (IF \E i \in 1..Len(path) : path[i] = "Generating" THEN 1 ELSE 0)
  /\ issued.log = (IF \E i \in 1..Len(path) : path[i] = "Auditing" THEN 1 ELSE 0)
  /\ issued.wiki > 0 => \E i \in 1..Len(path) : path[i] = "Enriching"

\* C10: a request goes through Validating, BudgetChecking, Generating,
\* Auditing, Parsing, Enriching in this order, entering none twice and none
\* before its predecessor, and ends in exactly one outcome: 200 (Done, after
\* all six stages), 400, 401 or 429 (Rejected) or 500 (Failed).
C10_SinglePass ==
  /\ \A r \in Slots :
       /\ ForwardPass(stages[r])
       /\ \A i \in 1..Len(stages[r]) : stages[r][i] \notin Outcomes
       /\ CallsMatch(stages[r], calls[r])
       /\ pc[r] = "idle" <=> stages[r] = <<>>
  /\ last.responded =>
       /\ pc[last.slot] = "idle"
       /\ ForwardPass(last.stages)
       /\ CallsMatch(last.stages, last.calls)
       /\ last.stages # <<>>
       /\ last.status \in {200, 400, 401, 429, 500}
       /\ last.status = 200 <=> last.stages = Append(StageOrder, "Done")
       /\ last.status \in {400, 401, 429} <=> last.stages[Len(last.stages)] = "Rejected"
       /\ last.status = 500 <=> last.stages[Len(last.stages)] = "Failed"

\* a request has gone through every stage and is answered 200
C10_Witness ==
  /\ last.responded /\ last.status = 200
  /\ last.stages = Append(StageOrder, "Done")
  /\ last.calls = [model |-> 1, log |-> 1, wiki |-> MaxSpots]

\* C11 as stated: a request whose model call succeeded but whose content is
\* no JSON, is null, or is an object without `spots`, ends in 500.
C11_UnusableContentFails ==
  [][/\ last'.logged /\ last'.content.kind = "invalidJson" =>
          last'.responded /\ last'.status = 500
     /\ /\ last.logged /\ last.content.kind \in {"null", "noSpotsField"}
        /\ ~last.responded
        /\ last'.responded /\ last'.slot = last.slot
        => last'.status = 500]_vars

\* the stages up to and including the model call
UpToModel == <<"Validating", "BudgetChecking", "Generating">>

\* C12: whatever I/O step of logCompletion fails, the request goes on as its
\* completion alone decides: 500 when the content is no JSON or its `spots`
\* is no array, else on to enrichment with one image lookup per spot.
C12_LoggingNeverPropagates ==
  last.logged =>
    IF last.content.kind = "invalidJson"
    THEN /\ last.responded /\ last.status = 500
         /\ last.stages = UpToModel \o <<"Auditing", "Parsing", "Failed">>
    ELSE IF last.content.kind = "noArray"
    THEN /\ last.responded /\ last.status = 500
         /\ last.stages = UpToModel \o <<"Auditing", "Parsing", "Enriching", "Failed">>
    ELSE /\ ~last.responded
         /\ pc[last.slot] = "awaitImages"
         /\ stages[last.slot] = UpToModel \o <<"Auditing", "Parsing", "Enriching">>
         /\ pendingImages[last.slot] =
              (IF last.content.kind = "spots" THEN last.content.n ELSE 0)
         /\ calls[last.slot].wiki = pendingImages[last.slot]

\* the cost file could not be written, and the request goes on to enrichment
C12_Witness ==
  /\ last.logged /\ ~last.recorded
  /\ last.content.kind = "spots"
  /\ pc[last.slot] = "awaitImages" /\ pendingImages[last.slot] = MaxSpots

\* every audit log only grows at its end
AppendOnly ==
  \A d \in Dates :
    /\ Len(auditLog'[d]) >= Len(auditLog[d])
    /\ SubSeq(auditLog'[d], 1, Len(auditLog[d])) = auditLog[d]

\* the step appends exactly one entry, to the log of today
OneEntryAppended ==
  /\ Len(auditLog'[clock]) = Len(auditLog[clock]) + 1
  /\ \A d \in Dates \ {clock} : auditLog'[d] = auditLog[d]

\* the request answered in the step had issued its model call, which failed
ModelCallFailed(event) ==
  event.responded /\ event.stages = UpToModel \o <<"Failed">>

DirectEmpty == wikiWorld.direct.kind # "thumbnail"

\* the search's top hit resolves to a page with a thumbnail
FallbackFinds ==
  wikiWorld.search.kind = "title" /\ wikiWorld.summary.kind = "thumbnail"

\* C14: when the direct lookup gives 404, no thumbnail or an error and the
\* top hit of the search has a thumbnail, fetchWikipediaImage returns a URL
\* (that thumbnail, upscaled); when neither tier has one it returns null.
C14_Fallback ==
  wikiPc = "done" /\ DirectEmpty =>
    IF FallbackFinds
    THEN /\ wikiResult.kind = "url"
         /\ wikiResult.url # <<>>
         /\ Len(wikiResult.url) = Len(wikiWorld.summary.url)
         /\ \A i \in 1..Len(wikiResult.url) :
              wikiResult.url[i].rest = wikiWorld.summary.url[i].rest
    ELSE wikiResult = [kind |-> "null", url |-> <<>>]

\* the direct lookup met a 404, and the fallback returned a thumbnail
C14_Witness ==
  /\ wikiPc = "done"
  /\ wikiWorld.direct.kind = "notOk"
  /\ FallbackFinds
  /\ wikiResult.kind = "url"
  /\ \E i \in 1..Len(wikiResult.url) : wikiResult.url[i].px = 640

\* C15: whatever the three requests meet, fetchWikipediaImage never throws:
\* once it is done it has returned a URL or null.
C15_NeverRaises ==
  /\ wikiResult.kind \in {"pending", "url", "null"}
  /\ wikiPc = "done" <=> wikiResult.kind \in {"url", "null"}
  /\ wikiPc \in {"idle", "direct", "search", "summary", "done"}

\* an error at the direct lookup and an unparsable body at the second
\* summary lookup end in null
C15_Witness ==
  /\ wikiPc = "done"
  /\ wikiWorld.direct.kind = "networkError"
  /\ wikiWorld.search.kind = "title"
  /\ wikiWorld.summary.kind = "badBody"
  /\ wikiResult.kind = "null"

\* C16: the upstream fetch is issued only for a URL of the host
\* upload.wikimedia.org itself; a URL of any other host (the allowed name as
\* prefix, suffix, parent, userinfo or path, or no host at all) is answered
\* 403 and nothing is fetched.
C16_AllowList ==
  /\ proxyFetches <= 1
  /\ proxyFetches > 0 => proxyIn.url \in AllowedUrls
  /\ proxyPc # "idle" /\ proxyIn.url \in AllowedUrls => proxyFetches = 1
  /\ proxyPc # "idle" /\ proxyIn.url \in ForeignUrls =>
       /\ proxyPc = "done"
       /\ proxyResponse.status = 403
       /\ proxyFetches = 0

\* a subdomain-style host that ends in the allowed name is answered 403
C16_Witness ==
  /\ proxyPc = "done"
  /\ proxyIn.url = Url(<<"https", "://", "evil", "upload", "wikimedia", "org", "/", "a.jpg">>)
  /\ proxyResponse.status = 403
  /\ proxyFetches = 0

\* C17: a `url` that is missing, empty or no URL is answered 400, not 403,
\* and nothing is fetched, whatever host it names.
C17_BadRequest ==
  proxyPc # "idle" /\ proxyIn.url \in AbsentUrls \cup UnparsableUrls =>
    /\ proxyPc = "done"
    /\ proxyResponse.status = 400
    /\ proxyFetches = 0

\* a text without scheme that names the allowed host is answered 400
C17_Witness ==
  /\ proxyPc = "done"
  /\ proxyIn.url = Url(<<"upload", "wikimedia", "org", "/", "a.jpg">>)
  /\ proxyResponse.status = 400
  /\ proxyFetches = 0

C19_Mirrors ==
  /\ proxyPc = "done" /\ proxyFetches = 1 /\ ~proxyAborted
  /\ proxyIn.upstream.kind = "responds"
  => IF proxyIn.upstream.status \in 200..299
     THEN proxyIn.upstream.body = "bytes" =>
            /\ proxyResponse.status = 200
            /\ proxyResponse.body = <<"bytes of", proxyIn.upstream.status>>
            /\ proxyResponse.contentType =
                 (IF proxyIn.upstream.contentType = "" THEN "image/jpeg"
                  ELSE proxyIn.upstream.contentType)
            /\ proxyResponse.cacheControl =
                 "public, max-age=604800, stale-while-revalidate=86400"
     ELSE /\ proxyResponse.status = proxyIn.upstream.status
          /\ proxyResponse.cacheControl = ""

\* an image the upstream sent without content-type is answered as image/jpeg
C19_Witness ==
  /\ proxyPc = "done" /\ ~proxyAborted
  /\ proxyIn.upstream.kind = "responds" /\ proxyIn.upstream.status = 200
  /\ proxyIn.upstream.contentType = ""
  /\ proxyResponse.status = 200
  /\ proxyResponse.contentType = "image/jpeg"

\* C20: a request whose upstream fetch has been issued is eventually
\* answered, whether the upstream stalls before the headers or in the body.
C20_EventuallyAnswered ==
  (proxyPc \in {"fetching", "reading"}) ~> (proxyPc = "done")

\* C24: nothing is retried. A request issues the model call at most once and
\* logCompletion at most once, and starts one image resolution per spot of
\* the parsed payload; while it waits, it issues nothing again; a model call
\* that failed ends the request; an audit entry is appended only by the step
\* that called logCompletion, so one that could not be written is never
\* written later.
C24_NothingRetried ==
  [][/\ \A r \in Slots :
          /\ calls'[r].model <= 1
          /\ calls'[r].log <= 1
          /\ pc[r] # "idle" /\ pc'[r] = pc[r] => calls'[r] = calls[r]
          /\ pc[r] = "awaitModel" /\ pc'[r] # "awaitModel" /\ ~last'.logged =>
               /\ pc'[r] = "idle"
               /\ last'.responded /\ last'.slot = r /\ last'.calls.model = 1
          /\ pc[r] = "awaitImages" /\ pc'[r] # "awaitImages" =>
               /\ last'.responded /\ last'.slot = r
               /\ last'.calls = calls[r]
     /\ last'.logged /\ ~last'.responded =>
          /\ calls'[last'.slot].wiki = SpotsOf(last'.content)
          /\ calls'[last'.slot].model = 1 /\ calls'[last'.slot].log = 1
     /\ \A d \in Dates :
          auditLog'[d] # auditLog[d] => last'.logged /\ last'.appended /\ d = clock
    ]_vars

\* the only request so far lost its audit entry and is answered 200 after
\* one model call, one logCompletion and one image resolution per spot
C24_Witness ==
  /\ last.responded /\ last.status = 200
  /\ last.calls = [model |-> 1, log |-> 1, wiki |-> MaxSpots]
  /\ arrived = 1 /\ attempts[clock] = 1 /\ recordings[clock] = 1
  /\ auditLog[clock] = <<>>

\* C25 as stated: at every point the persisted requests count of a date is
\* the number of model calls that returned successfully on that date,
\* whatever fails in logCompletion.
C25_CountsEveryCompletion ==
  \A d \in Dates : costFiles[d].data.requests = attempts[d]

\* C25, amended: a model call that returns successfully increases the
\* persisted requests count of today by exactly 1 in the step that calls
\* logCompletion (before the response is sent), whether or not the audit
\* append fails, provided the log directory, the read and the write of the
\* cost record succeed; when one of these fails the cost record is left as
\* it was and the call is not counted. No other step changes a count.
C25_CountsEveryRecorded ==
  [][/\ last'.logged =>
          IF last'.recorded
          THEN /\ costFiles'[clock].data.requests = costFiles[clock].data.requests + 1
               /\ \A d \in Dates \ {clock} : costFiles'[d] = costFiles[d]
          ELSE costFiles' = costFiles
     /\ ~last'.logged =>
          \A d \in Dates : costFiles'[d].data.requests = costFiles[d].data.requests
     /\ \A d \in Dates : costFiles'[d].data.requests <= attempts'[d]
    ]_vars

\* the audit append of the only completion failed, and the completion is
\* counted
C25_Witness ==
  /\ last.logged /\ last.recorded /\ ~last.appended
  /\ attempts[clock] = 1
  /\ costFiles[clock].data.requests = 1
  /\ auditLog[clock] = <<>>

\* C26 as stated: a request whose model call succeeded and which is answered
\* 500 for its content has had its usage recorded: requests and the totals
\* have gone up once, by this call's tokens and cost.
C26_UsageKeptOn500 ==
  [][last'.logged /\ last'.responded /\ last'.status = 500 =>
       costFiles'[clock].data =
         recordUsage(costFiles[clock].data, last'.model,
                     last'.promptTokens, last'.completionTokens)
    ]_vars

\* C26, amended: ... has had its usage recorded, provided the log directory,
\* the read and the write of the cost record succeeded; and no step takes
\* anything back from a cost record.
C26_UsageKeptOn500IfWritten ==
  [][/\ last'.logged /\ last'.responded /\ last'.status = 500 /\ last'.recorded =>
          /\ costFiles'[clock].exists
          /\ costFiles'[clock].data.requests = costFiles[clock].data.requests + 1
          /\ costFiles'[clock].data.totalPromptTokens =
               costFiles[clock].data.totalPromptTokens + last'.promptTokens
          /\ costFiles'[clock].data.totalCompletionTokens =
               costFiles[clock].data.totalCompletionTokens + last'.completionTokens
          /\ costFiles'[clock].data.totalTokens =
               costFiles[clock].data.totalTokens
                 + last'.promptTokens + last'.completionTokens
          /\ costFiles'[clock].data.totalCostUSD =
               costFiles[clock].data.totalCostUSD
                 + last'.promptTokens * ListPrice(last'.model).input
                 + last'.completionTokens * ListPrice(last'.model).output
     /\ \A d \in Dates :
          /\ costFiles'[d].data.requests >= costFiles[d].data.requests
          /\ costFiles'[d].data.totalTokens >= costFiles[d].data.totalTokens
          /\ costFiles'[d].data.totalCostUSD >= costFiles[d].data.totalCostUSD
          /\ costFiles[d].exists => costFiles'[d].exists
    ]_vars

\* the `spots` of the payload is no array: the request is answered 500 and
\* its tokens are in the cost record
C26_Witness ==
  /\ last.logged /\ last.responded /\ last.status = 500
  /\ last.recorded /\ last.content.kind = "noArray"
  /\ last.promptTokens > 0
  /\ costFiles[clock].data.requests = 1
  /\ costFiles[clock].data.totalTokens = last.promptTokens + last.completionTokens

\* C27: when the model call fails, the request is answered 500 in that very
\* step: the ledger is as it was, logCompletion was not called, nothing was
\* parsed and no image resolution was started.
C27_ModelFailureAnswersAtOnce ==
  [][\A r \in Slots :
       pc[r] = "awaitModel" /\ pc'[r] # "awaitModel" /\ ~last'.logged =>
         /\ last'.responded /\ last'.slot = r /\ last'.status = 500
         /\ pc'[r] = "idle"
         /\ last'.stages = UpToModel \o <<"Failed">>
         /\ last'.calls = [model |-> 1, log |-> 0, wiki |-> 0]
         /\ UNCHANGED <<logDirExists, costFiles, auditLog, attempts>>
    ]_vars

\* a model call has failed after an earlier request was recorded
C27_Witness ==
  /\ last.responded /\ last.status = 500
  /\ last.stages = UpToModel \o <<"Failed">>
  /\ costFiles[clock].data.requests = 1
  /\ Len(auditLog[clock]) = 1

\* C29: the credential is checked before the address and the address before
\* the budget, each before any external call: a request without credential
\* is answered 401 whatever its address and the budget, one with credential
\* and without address 400 whatever the budget, and the budget record is
\* read only for a request that passed both.
C29_ChecksInOrder ==
  /\ last.input.bodyOk /\ ~last.input.hasKey =>
       last.responded /\ last.status = 401 /\ ~last.checked
  /\ /\ last.input.bodyOk /\ last.input.hasKey
     /\ last.input.address \in {"absent", "empty", "blank"}
     => last.responded /\ last.status = 400 /\ ~last.checked
  /\ last.checked =>
       /\ last.input = [bodyOk |-> TRUE, hasKey |-> TRUE, address |-> "text"]
       /\ last.exceeded => last.responded /\ last.status = 429
  /\ last.responded /\ last.status \in {400, 401, 429} => last.calls = NoCalls
  /\ last.responded /\ last.status \in {400, 401} => ~last.checked

\* a request without credential and without address arrives while the total
\* of the date is at the ceiling: it is answered 401
C29_Witness ==
  /\ last.responded /\ last.status = 401
  /\ ~last.input.hasKey /\ last.input.address = "blank"
  /\ costFiles[clock].data.totalCostUSD >= DAILY_BUDGET_USD

\* C30: when every external call eventually returns or fails, a request
\* that waits is eventually answered, once (its slot is free as soon as the
\* response is sent, and only a response frees it); the 200 is sent only
\* when no image resolution of the request is pending.
C30_EventuallyOneResponse ==
  /\ \A r \in Slots : (pc[r] # "idle") ~> (last.responded /\ last.slot = r)
  /\ [][/\ \A r \in Slots :
             pc[r] # "idle" /\ pc'[r] = "idle" => last'.responded /\ last'.slot = r
        /\ last'.responded =>
             /\ pc'[last'.slot] = "idle"
             /\ last'.status \in {200, 400, 401, 429, 500}
        /\ last'.responded /\ last'.status = 200 =>
             /\ pc[last'.slot] = "awaitImages"
             /\ pendingImages[last'.slot] = 0
             /\ last'.calls.wiki = MaxSpots \/ last'.calls.wiki = 0
       ]_vars

\* a request whose payload named spots is answered 200 after all of its
\* image resolutions have settled
C30_Witness ==
  /\ last.responded /\ last.status = 200
  /\ last.calls.wiki = MaxSpots
  /\ pendingImages[last.slot] = 0
  /\ arrived = MaxRequests

\* the thumbnail `t` with its first width token, when it has one, rewritten
\* to 640px and nothing else changed
At640(t, u) ==
  /\ Len(u) = Len(t)
  /\ \A i \in 1..Len(t) :
       /\ u[i].rest = t[i].rest
       /\ u[i].px = (IF t[i].px > 0 /\ \A j \in 1..(i - 1) : t[j].px = 0
                     THEN 640 ELSE t[i].px)

\* C28: fetchWikipediaImage issues at most three requests, in the order
\* direct summary, search, summary of the top hit; the search is issued only
\* once the direct lookup has ended without a thumbnail; when the direct
\* lookup yields a thumbnail, the result is that thumbnail at 640px and
\* neither the search nor the second summary request is issued.
C28_DirectFirst ==
  /\ wikiRequests \in
       {<<>>, <<"summary(name)">>, <<"summary(name)", "search(name)">>,
        <<"summary(name)", "search(name)", "summary(title)">>,
        <<"search(name)">>, <<"search(name)", "summary(title)">>}
  /\ (\E i \in 1..Len(wikiRequests) : wikiRequests[i] = "search(name)") =>
       /\ wikiWorld.direct.kind # "thumbnail"
       /\ wikiPc \in {"search", "summary", "done"}
  /\ (\E i \in 1..Len(wikiRequests) : wikiRequests[i] = "summary(title)") =>
       /\ wikiWorld.search.kind = "title"
       /\ wikiPc \in {"summary", "done"}
  /\ wikiWorld.direct.kind = "thumbnail" /\ wikiPc = "done" =>
       /\ wikiRequests = <<"summary(name)">>
       /\ wikiResult.kind = "url"
       /\ At640(wikiWorld.direct.url, wikiResult.url)

\* the direct lookup returned a 320px thumbnail while the search would have
\* found another page: the result is the direct one at 640px, after one
\* request
C28_Witness ==
  /\ wikiPc = "done"
  /\ wikiWorld.direct.kind = "thumbnail"
  /\ \E i \in 1..Len(wikiWorld.direct.url) : wikiWorld.direct.url[i].px = 320
  /\ wikiWorld.search.kind = "title" /\ wikiWorld.summary.kind = "thumbnail"
  /\ wikiWorld.summary.url # wikiWorld.direct.url
  /\ wikiRequests = <<"summary(name)">>
  /\ \E i \in 1..Len(wikiResult.url) : wikiResult.url[i].px = 640

\* C21: whatever order the lookups settle in, the response has as many spots
\* as the payload, and its i-th spot is the i-th spot of the payload with
\* imageUrl set to a URL or null.
C21_OrderPreserved ==
  enrichPc = "done" =>
    /\ enrichOut.status = 200
    /\ Len(enrichOut.spots) = Len(enrichIn.spots)
    /\ \A i \in 1..Len(enrichIn.spots) :
         /\ enrichOut.spots[i].id = enrichIn.spots[i].id
         /\ enrichOut.spots[i].name = enrichIn.spots[i].name
         /\ enrichOut.spots[i].imageUrl.kind \in {"url", "null"}

\* the lookup of the last of several spots settled first, and the spot is
\* still the last of the response
C21_Witness ==
  /\ enrichPc = "done"
  /\ Len(enrichIn.spots) = MaxShortList
  /\ enrichFirst = MaxShortList
  /\ enrichOut.spots[MaxShortList].id = <<"spot-", MaxShortList>>
  /\ enrichOut.spots[1].id = <<"spot-", 1>>

\* exactly one lookup of the payload finds nothing
OneMissing(i) ==
  /\ i \in 1..Len(enrichIn.found)
  /\ enrichIn.found[i] = Null
  /\ \A j \in 1..Len(enrichIn.found) : j # i => enrichIn.found[j] # Null

\* C22: a lookup is started for every spot as soon as the enrichment starts;
\* when exactly one of them finds nothing, the response still has every
\* spot, that one with imageUrl null and every other with the image of its
\* own lookup.
C22_FailureIsolated ==
  /\ enrichPc # "idle" =>
       /\ Len(enrichPromises) = Len(enrichIn.spots)
       /\ \A i \in 1..Len(enrichPromises) : enrichPromises[i].lookups = 1
  /\ \A i \in 1..Len(enrichIn.spots) :
       enrichPc = "done" /\ OneMissing(i) =>
         /\ enrichOut.status = 200
         /\ Len(enrichOut.spots) = Len(enrichIn.spots)
         /\ enrichOut.spots[i].imageUrl = Null
         /\ \A j \in 1..Len(enrichOut.spots) :
              j # i => enrichOut.spots[j].imageUrl = ImageOf(j)

\* of eight spots the lookup of the third finds nothing and is the first to
\* settle: the response has the eight spots, seven with their images
C22_Witness ==
  /\ enrichPc = "done"
  /\ Len(enrichIn.spots) = PROMPT_SPOTS
  /\ OneMissing(3)
  /\ enrichFirst = 3
  /\ Len(enrichOut.spots) = PROMPT_SPOTS
  /\ enrichOut.spots[3].imageUrl = Null
  /\ enrichOut.spots[PROMPT_SPOTS].imageUrl = ImageOf(PROMPT_SPOTS)

\* C23: the success response has exactly the spots of the payload, each
\* with the id and every field of the parsed spot except imageUrl, which is
\* written once per spot: when the lookup of the spot settles.
C23_RoundTrip ==
  /\ \A i \in 1..Len(enrichPromises) :
       IF enrichPromises[i].settled
       THEN /\ enrichPromises[i].writes = 1
            /\ enrichPromises[i].value =
                 [enrichIn.spots[i] EXCEPT !.imageUrl = enrichIn.found[i]]
       ELSE /\ enrichPromises[i].writes = 0
            /\ enrichPromises[i].value.imageUrl = Absent
  /\ enrichPc = "done" /\ enrichOut.status = 200 =>
       /\ Len(enrichOut.spots) = Len(enrichIn.spots)
       /\ \A i \in 1..Len(enrichOut.spots) :
            /\ enrichOut.spots[i] =
                 [enrichIn.spots[i] EXCEPT !.imageUrl = enrichOut.spots[i].imageUrl]
            /\ enrichOut.spots[i].imageUrl # Absent
            /\ enrichPromises[i].writes = 1

\* the eight spots of a payload are in the response with their ids, names
\* and categories, each with its image
C23_Witness ==
  /\ enrichPc = "done" /\ enrichOut.status = 200
  /\ Len(enrichOut.spots) = PROMPT_SPOTS
  /\ \A i \in 1..PROMPT_SPOTS :
       /\ enrichOut.spots[i] = [ParsedSpot(i) EXCEPT !.imageUrl = ImageOf(i)]
       /\ enrichPromises[i].writes = 1

=============================================================================
